---------------------------- MODULE Spec2Model ----------------------------
(***************************************************************************)
(* State-machine model of the tower-defense simulation core:               *)
(*   - the game store (useTowerDefense: phase, economy, towers, enemies,   *)
(*     effects, statistics, the per-frame updateGame),                     *)
(*   - the card store (useCards: hand / deck / discard, playCard ...),     *)
(*   - the generic ObjectPool and the TargetingSystem the game store owns. *)
(*                                                                         *)
(* Units.  Time is counted in tenths of a second, path progress in         *)
(* 1/2000 of the path, fire rates in halves of a shot per second, so that  *)
(* every quantity the code computes in floating point is an exact integer  *)
(* here.  An enemy's position is (0, 1, -25 + 50*pathProgress); it is      *)
(* always recomputed from pathProgress, so it is not stored.               *)
(***************************************************************************)
EXTENDS Integers, Sequences, FiniteSets, TLC

\* ------------------------------------------------------------------ bounds
\* Latest game time (tenths of a second) a frame of Spec may reach.
MaxGameTime == 50
\* Latest game time a frame of CombatSpec may reach.
CombatTime == 200
\* Length of a frame of Spec and CombatSpec (tenths of a second).
TickLength == 50
\* Enemy ids generated over one run of Spec.
MaxSpawned == 1
\* Enemy ids generated over one run of CombatSpec.
CombatSpawned == 2
\* Latest game time a frame of BreachSpec may reach.
BreachTime == 1000
\* Length of a frame of BreachSpec.
BreachTick == 50
\* Enemy ids generated over one run of BreachSpec.
BreachSpawned == 2
\* Latest game time a frame of LossSpec may reach.
LossTime == 1250
\* Length of a frame of LossSpec.
LossTick == 250
\* Enemy ids generated over one run of LossSpec.
LossSpawned == 22
\* Tower ids generated over one run of Spec or CombatSpec.
MaxTowers == 2
\* The slot of Positions placeTower is called with directly.
PlaceSlot == 5
\* Last wave index nextWave may reach.
MaxWave == 2
\* Cards drawn after the initial hand.
MaxDraws == 1
\* Largest capacity of the stand-alone pool of PoolSpec.
MaxPoolCap == 2
\* Most objects the stand-alone pool of PoolSpec has leased at once.
MaxLeased == 3
\* Objects acquire builds, beyond the warm set, over one run of PoolSpec.
MaxBuilt == 3
CardWave == 7
MaxTargets == 2
VictoryTick == 100
VictoryTime == 600
MaxHalfDamage == 8
MaxArmor == 120
MaxWaveNumber == 15
CrossfireWave == 3
CooldownTick == 2
CooldownTime == 70

\* ------------------------------------------------------- program constants
TimeScale == 10
ProgressFull == 2000
InitialLives == 20
InitialMoney == 100
TotalWaves == 10
WaveTimeLimit == 300
WaveBonus == 50
TowerCost == 50
TowerDamage == 25
TowerRange == 8
TowerFireRate2 == 4
SpawnCap == 10
LaserLifetime == 1
DeathLifetime == 10
HitLifetime == 5
LaserPoolSize == 100
ParticlePoolSize == 200
WarmSize == 10
DrawCost == 10
MaxHandSize == 7
InitialDraws == 3
DefaultSpellDamage == 50
DefaultUpgradeDamage == 10
DefaultUpgradeRange == 1
DefaultUpgradeFireRate2 == 1

NoTarget == 0

Max(a, b) == IF a >= b THEN a ELSE b
Min(a, b) == IF a <= b THEN a ELSE b

\* The elements of a sequence, as a set.
Range(s) == {s[i] : i \in DOMAIN s}

\* ---------------------------------------------------------------- ObjectPool
\* A pool is [available: sequence of objects, inUse: the leased objects in
\* insertion order (a JavaScript Set iterates in insertion order), made:
\* number of objects the factory has built, maxSize].  Objects are numbered
\* in the order the factory builds them.

\* Set.add
SetAdd(s, x) == IF x \in Range(s) THEN s ELSE Append(s, x)

\* Set.delete
SetDelete(s, x) == SelectSeq(s, LAMBDA y : y # x)

\* constructor: pre-populates min(10, maxSize) objects.
NewPool(maxSize) ==
  LET n == Min(WarmSize, maxSize)
  IN  [available |-> [i \in 1..n |-> i], inUse |-> <<>>, made |-> n,
       maxSize |-> maxSize]

\* acquire(): the object handed out.
AcquiredObject(p) ==
  IF Len(p.available) > 0 THEN p.available[Len(p.available)] ELSE p.made + 1

\* acquire(): the pool afterwards.
Acquire(p) ==
  IF Len(p.available) > 0
  THEN [p EXCEPT !.available = SubSeq(p.available, 1, Len(p.available) - 1),
                 !.inUse = SetAdd(p.inUse, p.available[Len(p.available)])]
  ELSE [p EXCEPT !.made = p.made + 1, !.inUse = SetAdd(p.inUse, p.made + 1)]

\* A release that keeps every object, whatever the capacity.
KeepAlways(p) == TRUE

\* The capacity test of release / releaseAll: is the object kept?
KeepReleased(p) == Len(p.available) < p.maxSize

\* A wrong release: no test that the object is leased.
ReleaseUnchecked(p, obj) ==
  LET q == [p EXCEPT !.inUse = SetDelete(p.inUse, obj)]
  IN  IF KeepReleased(q)
      THEN [q EXCEPT !.available = Append(q.available, obj)]
      ELSE q

\* release(obj)
Release(p, obj) ==
  IF obj \notin Range(p.inUse) THEN p
  ELSE LET q == [p EXCEPT !.inUse = SetDelete(p.inUse, obj)]
       IN  IF KeepReleased(q)
           THEN [q EXCEPT !.available = Append(q.available, obj)]
           ELSE q

\* The forEach of releaseAll over the leased objects, in insertion order.
RECURSIVE ReleaseEach(_, _)
ReleaseEach(p, order) ==
  IF order = <<>> THEN p
  ELSE ReleaseEach(IF KeepReleased(p)
                   THEN [p EXCEPT !.available = Append(p.available, Head(order))]
                   ELSE p,
                   Tail(order))

\* releaseAll()
ReleaseAll(p) == [ReleaseEach(p, p.inUse) EXCEPT !.inUse = <<>>]

\* ------------------------------------------------------------------ geometry
\* Coordinates are kept in 1/CoordScale of a world unit, so that the z of an
\* enemy, -25 + 50 * pathProgress, is the integer PathStartZ*CoordScale + p.
PathLength == 50
PathStartZ == -25
CoordScale == ProgressFull \div PathLength

Vec(x, y, z) == [x |-> x * CoordScale, y |-> y * CoordScale, z |-> z * CoordScale]

\* The six positions playTowerCard tries, in its order.
Positions ==
  << Vec(-5, 0, 0), Vec(5, 0, 0), Vec(-5, 0, 10), Vec(5, 0, 10),
     Vec(-5, 0, -10), Vec(5, 0, -10) >>

\* Enemy position: spawnEnemy's (0, 1, -25), and updateGame's z from progress.
EnemyPosition(pathProgress) ==
  [x |-> 0, y |-> CoordScale, z |-> PathStartZ * CoordScale + pathProgress]

\* Vector3.distanceTo, squared (in scaled units).
DistSq(a, b) ==
  (a.x - b.x) * (a.x - b.x) + (a.y - b.y) * (a.y - b.y) + (a.z - b.z) * (a.z - b.z)

\* distance <= r, for a range r in world units.
WithinDistance(a, b, r) == DistSq(a, b) <= (r * CoordScale) * (r * CoordScale)

\* distance < r
CloserThan(a, b, r) == DistSq(a, b) < (r * CoordScale) * (r * CoordScale)

\* ------------------------------------------------------------ TargetingSystem
\* A targeting system is [strategy, cache, fresh]: cache maps the ids of the
\* entities it holds an entry for to a target id (NoTarget for null); fresh
\* says whether Date.now() - lastUpdateTime < cacheUpdateInterval holds at
\* the current wall-clock time.
Strategies == {"closest", "weakest", "strongest", "first", "last"}

NewTargetingSystem(strategy) ==
  [strategy |-> strategy, cache |-> <<>>, fresh |-> FALSE]

\* Map.set on the cache (a function from entity ids to target ids).
CacheSet(cache, key, value) ==
  [k \in (DOMAIN cache) \cup {key} |-> IF k = key THEN value ELSE cache[k]]

\* isInRange
IsInRange(entity, target) ==
  WithinDistance(entity.position, EnemyPosition(target.pathProgress), entity.range)

\* potentialTargets.find(t => t.id === id): the index, or 0 when absent.
FindIndex(targets, id) ==
  IF \E i \in DOMAIN targets : targets[i].id = id
  THEN CHOOSE i \in DOMAIN targets :
         targets[i].id = id /\ \A j \in 1..(i - 1) : targets[j].id # id
  ELSE 0

\* A wrong comparison: distance <= minDistance.
NotFartherTarget(entity, t, best) ==
  DistSq(entity.position, EnemyPosition(t.pathProgress))
    <= DistSq(entity.position, EnemyPosition(best.pathProgress))

\* The comparison of findClosestTarget: distance < minDistance.
CloserTarget(entity, t, best) ==
  DistSq(entity.position, EnemyPosition(t.pathProgress))
    < DistSq(entity.position, EnemyPosition(best.pathProgress))

\* findClosestTarget: forEach with a strict comparison, so the first of
\* equally distant targets is kept.  best = 0 stands for null / Infinity.
RECURSIVE ClosestFrom(_, _, _, _)
ClosestFrom(entity, targets, i, best) ==
  IF i > Len(targets) THEN best
  ELSE ClosestFrom(entity, targets, i + 1,
         IF best = 0 \/ CloserTarget(entity, targets[i], targets[best])
         THEN i ELSE best)

FindClosestTarget(entity, targets) == ClosestFrom(entity, targets, 1, 0)

\* findWeakestTarget: health < minHealth, minHealth starting at Infinity.
RECURSIVE WeakestFrom(_, _, _)
WeakestFrom(targets, i, best) ==
  IF i > Len(targets) THEN best
  ELSE WeakestFrom(targets, i + 1,
         IF best = 0 \/ targets[i].health < targets[best].health
         THEN i ELSE best)

FindWeakestTarget(targets) ==
  LET w == WeakestFrom(targets, 1, 0) IN IF w = 0 THEN 1 ELSE w

\* findStrongestTarget: health > maxHealth, maxHealth starting at 0, so a
\* target of health 0 is never chosen by the loop; strongest || targets[0].
RECURSIVE StrongestFrom(_, _, _, _)
StrongestFrom(targets, i, best, maxHealth) ==
  IF i > Len(targets) THEN best
  ELSE IF targets[i].health > maxHealth
       THEN StrongestFrom(targets, i + 1, i, targets[i].health)
       ELSE StrongestFrom(targets, i + 1, best, maxHealth)

FindStrongestTarget(targets) ==
  LET w == StrongestFrom(targets, 1, 0, 0) IN IF w = 0 THEN 1 ELSE w

\* The switch of findBestTarget over a non-empty list of targets in range:
\* the index of the chosen one.
ApplyStrategy(strategy, entity, inRange) ==
  CASE strategy = "closest"   -> FindClosestTarget(entity, inRange)
    [] strategy = "weakest"   -> FindWeakestTarget(inRange)
    [] strategy = "strongest" -> FindStrongestTarget(inRange)
    [] strategy = "first"     -> 1
    [] strategy = "last"      -> Len(inRange)
    [] OTHER                  -> FindClosestTarget(entity, inRange)

\* The cache entry findBestTarget consults: targetCache.get(cacheKey) within
\* the cache interval (NoTarget: null, no entry, or the interval is over).
Memo(ts, entity) ==
  IF ts.fresh /\ entity.id \in DOMAIN ts.cache
  THEN ts.cache[entity.id] ELSE NoTarget

\* A wrong cache check: the entry returned without validation.
UncheckedTarget(ts, entity, targets) == Memo(ts, entity)

\* The cached target findBestTarget may return (NoTarget: none).
CachedTarget(ts, entity, targets) ==
  IF ts.fresh /\ entity.id \in DOMAIN ts.cache
  THEN IF ts.cache[entity.id] # NoTarget
       THEN LET i == FindIndex(targets, ts.cache[entity.id])
            IN  IF i # 0 /\ IsInRange(entity, targets[i])
                THEN ts.cache[entity.id] ELSE NoTarget
       ELSE NoTarget
  ELSE NoTarget

\* findBestTarget: [id |-> the result, ts |-> the targeting system afterwards].
FindBestTarget(ts, entity, targets) ==
  LET cached  == CachedTarget(ts, entity, targets)
      inRange == SelectSeq(targets, LAMBDA t : IsInRange(entity, t))
  IN  IF cached # NoTarget THEN [id |-> cached, ts |-> ts]
      ELSE IF Len(inRange) = 0
      THEN [id |-> NoTarget,
            ts |-> [ts EXCEPT !.cache = CacheSet(ts.cache, entity.id, NoTarget)]]
      ELSE LET result == inRange[ApplyStrategy(ts.strategy, entity, inRange)].id
           IN  [id |-> result,
                ts |-> [ts EXCEPT !.cache = CacheSet(ts.cache, entity.id, result),
                                  !.fresh = TRUE]]

\* setTargetingStrategy: the strategy is set and the cache cleared.
SetTargetingStrategy(ts, strategy) ==
  [ts EXCEPT !.strategy = strategy, !.cache = <<>>]

\* cacheUpdateInterval of wall-clock time goes by since lastUpdateTime.
IntervalElapsed(ts) == [ts EXCEPT !.fresh = FALSE]

\* ------------------------------------------------------------------ enemyData
\* Fractions <<numerator, denominator>> with a positive denominator stand for
\* the numbers of the damage arithmetic.
Frac(n, d) == <<n, d>>

FracLeq(a, b) == a[1] * b[2] <= b[1] * a[2]

FracEq(a, b) == a[1] * b[2] = b[1] * a[2]

FracMax(a, b) == IF FracLeq(a, b) THEN b ELSE a

FracTimes(a, b) == Frac(a[1] * b[1], a[2] * b[2])

\* 1 - a
FracComplement(a) == Frac(a[2] - a[1], a[2])

\* A wrong reduction: armor / (armor + 200).
WeakArmorReduction(damage, armor) ==
  FracMax(Frac(1, 1),
          FracTimes(damage, FracComplement(Frac(armor, armor + 200))))

\* calculateArmorReduction(damage, armor), damage a fraction, armor an integer.
CalculateArmorReduction(damage, armor) ==
  LET reduction == Frac(armor, armor + 100)
  IN  FracMax(Frac(1, 1), FracTimes(damage, FracComplement(reduction)))

\* waveTemplates[template].enemyTypes
WaveEnemyTypes(template) ==
  CASE template = "early" -> <<"normal", "fast">>
    [] template = "mid"   -> <<"normal", "fast", "heavy", "armored">>
    [] template = "late"  -> <<"heavy", "armored", "flying", "regenerating">>
    [] template = "boss"  -> <<"boss", "elite", "shielded">>
    [] template = "swarm" -> <<"swarm", "normal", "fast">>
    [] template = "mixed" -> <<"normal", "fast", "heavy", "armored", "flying">>

\* The template generateWaveComposition determines from the wave number.
WaveTemplateOf(waveNumber) ==
  IF waveNumber <= 3 THEN "early"
  ELSE IF waveNumber <= 6 THEN "mid"
  ELSE IF waveNumber = 10 \/ waveNumber % 5 = 0 THEN "boss"
  ELSE IF waveNumber % 4 = 0 THEN "swarm"
  ELSE IF waveNumber <= 8 THEN "late"
  ELSE "mixed"

\* generateWaveComposition(waveNumber).  draws[i] holds the two Math.random()
\* results of entry i as [factor, interval], in tenths: the count factor
\* 0.8 + random * 0.4 and the interval 1 + random * 2.
GenerateWaveComposition(waveNumber, draws) ==
  LET template == WaveTemplateOf(waveNumber)
      types == WaveEnemyTypes(template)
      enemyCount == (16 + 3 * waveNumber) \div 2
      remainingEnemies == enemyCount
      baseCount(index) == IF index = Len(types) THEN remainingEnemies
                          ELSE enemyCount \div Len(types)
  IN  [enemies |-> [index \in DOMAIN types |->
                      [type |-> types[index],
                       count |-> Max(1, (baseCount(index) * draws[index].factor)
                                          \div 10),
                       interval |-> draws[index].interval]],
       template |-> template]

\* ------------------------------------------------------------- the game store
\* The operators below take the store's state s, a record of the fields of
\* TowerDefenseState (get()), and give the state after the call (set()).
\* Besides the fields of the code the record carries:
\*   towerIds, enemyIds  how many tower / enemy ids have been generated (the
\*                       code's ids are unique strings; here the n-th is n),
\*   dealt, credited     history: per enemy id, the damage damageEnemy has
\*                       applied to it and how often its reward was credited.
\* accuracy is the fraction <<hitShots, totalShots>> (<<0, 1>> for 0).

EnemyTypes == {"normal", "fast", "heavy", "boss"}

\* enemyConfig of spawnEnemy; speed is progress units per time unit.
EnemyConfig(type) ==
  CASE type = "normal" -> [health |-> 100, speed |-> 4, reward |-> 10]
    [] type = "fast"   -> [health |-> 60,  speed |-> 8, reward |-> 15]
    [] type = "heavy"  -> [health |-> 200, speed |-> 2, reward |-> 25]
    [] type = "boss"   -> [health |-> 500, speed |-> 3, reward |-> 100]

\* The initial state of the store (and what initializeGame resets).
InitialStore ==
  [gamePhase |-> "menu", currentWave |-> 1, totalWaves |-> TotalWaves,
   lives |-> InitialLives, score |-> 0, money |-> InitialMoney,
   gameTime |-> 0, waveProgress |-> 0,
   towers |-> <<>>, enemies |-> <<>>, laserBeams |-> <<>>,
   particleEffects |-> <<>>,
   enemiesKilled |-> 0, accuracy |-> <<0, 1>>, totalShots |-> 0, hitShots |-> 0,
   laserPool |-> NewPool(LaserPoolSize),
   particlePool |-> NewPool(ParticlePoolSize),
   targetingSystem |-> NewTargetingSystem("closest"),
   towerIds |-> 0, enemyIds |-> 0, dealt |-> <<>>, credited |-> <<>>]

\* initializeGame: resets the session fields; the phase, the pools and the
\* targeting system are not touched.
InitializeGame(s) ==
  [s EXCEPT !.currentWave = 1, !.lives = InitialLives, !.score = 0,
            !.money = InitialMoney, !.gameTime = 0, !.waveProgress = 0,
            !.towers = <<>>, !.enemies = <<>>, !.laserBeams = <<>>,
            !.particleEffects = <<>>, !.enemiesKilled = 0, !.totalShots = 0,
            !.hitShots = 0, !.accuracy = <<0, 1>>]

SetGamePhase(s, phase) == [s EXCEPT !.gamePhase = phase]
StartGame(s) == [s EXCEPT !.gamePhase = "playing"]
PauseGame(s) == [s EXCEPT !.gamePhase = "paused"]
ResumeGame(s) == [s EXCEPT !.gamePhase = "playing"]
RestartGame(s) == [InitializeGame(s) EXCEPT !.gamePhase = "playing"]

\* nextWave
NextWave(s) ==
  [s EXCEPT !.currentWave = s.currentWave + 1, !.waveProgress = 0,
            !.money = s.money + WaveBonus]

\* The money test of placeTower.
CanAfford(money, cost) == money >= cost

\* placeTower(position, type)
PlaceTower(s, position) ==
  IF CanAfford(s.money, TowerCost)
  THEN [s EXCEPT !.towers = Append(s.towers,
                    [id |-> s.towerIds + 1, position |-> position, level |-> 1,
                     damage |-> TowerDamage, range |-> TowerRange,
                     fireRate2 |-> TowerFireRate2, lastFired |-> 0,
                     canFire |-> TRUE, currentTargetId |-> NoTarget]),
                 !.towerIds = s.towerIds + 1,
                 !.money = s.money - TowerCost]
  ELSE s

\* spawnEnemy(type)
SpawnEnemy(s, type) ==
  LET config == EnemyConfig(type)
  IN  [s EXCEPT !.enemies = Append(s.enemies,
                   [id |-> s.enemyIds + 1, type |-> type,
                    health |-> config.health, maxHealth |-> config.health,
                    speed |-> config.speed, pathProgress |-> 0,
                    reward |-> config.reward]),
                !.enemyIds = s.enemyIds + 1,
                !.dealt = Append(s.dealt, 0),
                !.credited = Append(s.credited, 0)]

\* addParticleEffect: leases a particle and appends it.
AddParticleEffect(s, type, lifetime) ==
  [s EXCEPT !.particlePool = Acquire(s.particlePool),
            !.particleEffects = Append(s.particleEffects,
               [obj |-> AcquiredObject(s.particlePool), type |-> type,
                lifetime |-> lifetime])]

\* removeEnemy
RemoveEnemy(s, enemyId) ==
  [s EXCEPT !.enemies = SelectSeq(s.enemies, LAMBDA e : e.id # enemyId)]

\* A wrong newHealth: the damage added.
RaisedHealth(health, damage) == Max(0, health + damage)

\* Math.max(0, enemy.health - damage)
NewHealth(health, damage) == Max(0, health - damage)

\* damageEnemy(enemyId, damage)
DamageEnemy(s, enemyId, damage) ==
  LET i == FindIndex(s.enemies, enemyId)
  IN  IF i = 0 THEN s
      ELSE
        LET enemy == s.enemies[i]
            newHealth == NewHealth(enemy.health, damage)
        IN  IF newHealth <= 0
            THEN LET s1 == AddParticleEffect(RemoveEnemy(s, enemyId),
                                             "death", DeathLifetime)
                 IN  [s1 EXCEPT !.score = s1.score + enemy.reward,
                                !.money = s1.money + enemy.reward,
                                !.enemiesKilled = s1.enemiesKilled + 1,
                                !.hitShots = s1.hitShots + 1,
                                !.dealt[enemyId] = s1.dealt[enemyId] + damage,
                                !.credited[enemyId] = s1.credited[enemyId] + 1]
            ELSE AddParticleEffect(
                   [s EXCEPT !.enemies =
                               [j \in DOMAIN s.enemies |->
                                  IF s.enemies[j].id = enemyId
                                  THEN [s.enemies[j] EXCEPT !.health = newHealth]
                                  ELSE s.enemies[j]],
                             !.hitShots = s.hitShots + 1,
                             !.dealt[enemyId] = s.dealt[enemyId] + damage],
                   "hit", HitLifetime)

\* fireLaser(towerId, targetId)
FireLaser(s, towerId, targetId) ==
  LET t == FindIndex(s.towers, towerId)
      e == FindIndex(s.enemies, targetId)
  IN  IF t = 0 \/ e = 0 THEN s
      ELSE DamageEnemy(
             [s EXCEPT !.laserPool = Acquire(s.laserPool),
                       !.laserBeams = Append(s.laserBeams,
                          [obj |-> AcquiredObject(s.laserPool),
                           lifetime |-> LaserLifetime]),
                       !.totalShots = s.totalShots + 1],
             targetId, s.towers[t].damage)

\* ---------------------------------------------------------------- updateGame
\* updateGame reads `state`, the store as it was when the call began, all the
\* way through; the calls it makes (spawnEnemy, fireLaser, damageEnemy, the
\* lives decrement) act on the live store.  Below, state is that snapshot and
\* live is the store as the calls have left it so far.

\* A wrong cooldown test: always ready.
AlwaysReady(tower, newGameTime) == TRUE

\* Cooldown test: (newGameTime - lastFired) >= 1 / fireRate.
CooldownElapsed(tower, newGameTime) ==
  (newGameTime - tower.lastFired) * tower.fireRate2 >= 2 * TimeScale

\* The current target, dropped when it is gone or out of range.
ValidatedTarget(state, tower) ==
  IF tower.currentTargetId = NoTarget THEN NoTarget
  ELSE LET i == FindIndex(state.enemies, tower.currentTargetId)
       IN  IF i = 0 THEN NoTarget
           ELSE IF ~WithinDistance(tower.position,
                                   EnemyPosition(state.enemies[i].pathProgress),
                                   tower.range)
                THEN NoTarget
                ELSE tower.currentTargetId

\* The tower a firing tower becomes.
FiredTower(tower, targetId, newGameTime) ==
  [tower EXCEPT !.currentTargetId = targetId, !.lastFired = newGameTime,
                !.canFire = FALSE]

\* One tower of state.towers.map: [live, tower].
UpdateTower(state, live, tower, newGameTime) ==
  LET canFire == CooldownElapsed(tower, newGameTime)
      kept    == ValidatedTarget(state, tower)
      found   == IF kept = NoTarget
                 THEN FindBestTarget(live.targetingSystem, tower, state.enemies)
                 ELSE [id |-> kept, ts |-> live.targetingSystem]
      live1   == [live EXCEPT !.targetingSystem = found.ts]
  IN  IF canFire /\ found.id # NoTarget
      THEN [live  |-> FireLaser(live1, tower.id, found.id),
            tower |-> FiredTower(tower, found.id, newGameTime)]
      ELSE [live  |-> live1,
            tower |-> [tower EXCEPT !.currentTargetId = found.id,
                                    !.canFire = canFire]]

\* state.towers.map, towers i.. : [live, towers].
RECURSIVE UpdateTowers(_, _, _, _, _)
UpdateTowers(state, live, updated, i, newGameTime) ==
  IF i > Len(state.towers) THEN [live |-> live, towers |-> updated]
  ELSE LET r == UpdateTower(state, live, state.towers[i], newGameTime)
       IN  UpdateTowers(state, r.live, Append(updated, r.tower), i + 1,
                        newGameTime)

\* newProgress
NewProgress(enemy, deltaTime) == enemy.pathProgress + enemy.speed * deltaTime

\* A breach test that misses the enemy arriving exactly at the end.
ReachedBeyond(enemy, deltaTime) == NewProgress(enemy, deltaTime) > ProgressFull

\* The breach test: newProgress >= 1.
ReachedEnd(enemy, deltaTime) == NewProgress(enemy, deltaTime) >= ProgressFull

\* state.enemies.map(...).filter(Boolean)
UpdatedEnemies(state, deltaTime) ==
  LET kept == SelectSeq(state.enemies, LAMBDA e : ~ReachedEnd(e, deltaTime))
  IN  [i \in DOMAIN kept |->
         [kept[i] EXCEPT !.pathProgress = NewProgress(kept[i], deltaTime)]]

\* How many set(lives - 1) the enemy map performs.
BreachCount(state, deltaTime) ==
  Cardinality({i \in DOMAIN state.enemies : ReachedEnd(state.enemies[i], deltaTime)})

\* Effects aged by deltaTime, the expired ones filtered out.
Decayed(effects, deltaTime) ==
  SelectSeq([i \in DOMAIN effects |->
               [effects[i] EXCEPT !.lifetime = effects[i].lifetime - deltaTime]],
            LAMBDA x : x.lifetime > 0)

\* accuracy of the final set.
Accuracy(hitShots, totalShots) ==
  IF totalShots > 0 THEN <<hitShots, totalShots>> ELSE <<0, 1>>

\* A phase test that lets every phase but "ended" run the frame.
NotEnded(s) == s.gamePhase # "ended"

\* The phase test of updateGame: state.gamePhase === 'playing'.
IsPlaying(s) == s.gamePhase = "playing"

\* updateGame(deltaTime).  spawn: Math.random() < 0.02 came out true;
\* expired: the targeting cache's validity window has passed since the last
\* frame (wall-clock time).
UpdateGame(s, deltaTime, spawn, expired) ==
  IF ~IsPlaying(s) THEN s
  ELSE
    LET state == [s EXCEPT !.targetingSystem.fresh =
                              s.targetingSystem.fresh /\ ~expired]
        newGameTime == state.gameTime + deltaTime
        newWaveProgress == Min(newGameTime % WaveTimeLimit, WaveTimeLimit)
        live0 == IF spawn /\ Len(state.enemies) < SpawnCap
                 THEN SpawnEnemy(state, "normal") ELSE state
        t == UpdateTowers(state, live0, <<>>, 1, newGameTime)
        updatedEnemies == UpdatedEnemies(state, deltaTime)
        live1 == [t.live EXCEPT !.lives = t.live.lives - BreachCount(state, deltaTime)]
        live2 == IF state.lives <= 0
                 THEN [live1 EXCEPT !.gamePhase = "ended"] ELSE live1
        live3 == IF newWaveProgress >= WaveTimeLimit /\ Len(updatedEnemies) = 0
                    /\ state.currentWave >= state.totalWaves
                 THEN [live2 EXCEPT !.gamePhase = "ended"] ELSE live2
    IN  [live3 EXCEPT !.gameTime = newGameTime,
                      !.waveProgress = newWaveProgress,
                      !.towers = t.towers,
                      !.enemies = updatedEnemies,
                      !.laserBeams = Decayed(state.laserBeams, deltaTime),
                      !.particleEffects = Decayed(state.particleEffects, deltaTime),
                      !.accuracy = Accuracy(state.hitShots, state.totalShots)]

\* -------------------------------------------------------------- the card store
\* The card store is c = [hand, deck, discardPile], sequences of card ids.
\* initializeCards builds eight cards; card i is an instance of StartingDeck[i].
\* A store operation gives [ok, cards, store]: its boolean result, the card
\* store and the game store afterwards.
StartingDeck ==
  << "basicTower", "basicTower", "basicTower", "damageSpell", "damageSpell",
     "rangeUpgrade", "rangeUpgrade", "laserTower" >>

Cards == DOMAIN StartingDeck

\* cardData; a stat the card does not define is 0 (the code's `stat || default`
\* treats undefined and 0 alike), fireRate2 is twice the fire rate.
CardData(name) ==
  CASE name = "basicTower" ->
         [type |-> "tower", cost |-> 50, damage |-> 25, range |-> 8,
          fireRate2 |-> 4, effect |-> "none"]
    [] name = "laserTower" ->
         [type |-> "tower", cost |-> 100, damage |-> 40, range |-> 10,
          fireRate2 |-> 6, effect |-> "none"]
    [] name = "damageSpell" ->
         [type |-> "spell", cost |-> 30, damage |-> 50, range |-> 0,
          fireRate2 |-> 0, effect |-> "damage_all"]
    [] name = "rangeUpgrade" ->
         [type |-> "upgrade", cost |-> 35, damage |-> 0, range |-> 3,
          fireRate2 |-> 0, effect |-> "none"]
    [] name = "healSpell" ->
         [type |-> "spell", cost |-> 40, damage |-> 0, range |-> 0,
          fireRate2 |-> 0, effect |-> "heal_towers"]

\* The card addCardToDeck is called with, and the id its copy gets.
AddedCard == "healSpell"
AddedCardId == Len(StartingDeck) + 1

CardNames == Append(StartingDeck, AddedCard)

CardOf(cardId) == CardData(CardNames[cardId])

\* stat || default
OrDefault(stat, default) == IF stat # 0 THEN stat ELSE default

EmptyCards == [hand |-> <<>>, deck |-> <<>>, discardPile |-> <<>>]

\* A wrong hand test: one card more than maxHandSize.
HandOverfull(c) == Len(c.hand) > MaxHandSize

\* hand.length >= maxHandSize
HandFull(c) == Len(c.hand) >= MaxHandSize

\* drawCard.  When the deck is empty the discard pile becomes the deck, in its
\* order: shuffleDeck() shuffles the store's still empty deck, and the set()
\* after it installs the unshuffled copy.
DrawCard(c, s) ==
  IF HandFull(c) THEN [ok |-> FALSE, cards |-> c, store |-> s]
  ELSE IF s.money < DrawCost THEN [ok |-> FALSE, cards |-> c, store |-> s]
  ELSE IF Len(c.deck) = 0 /\ Len(c.discardPile) = 0
  THEN [ok |-> FALSE, cards |-> c, store |-> s]
  ELSE LET refill == Len(c.deck) = 0
           currentDeck == IF refill THEN c.discardPile ELSE c.deck
       IN  [ok |-> TRUE,
            cards |-> [hand |-> Append(c.hand, currentDeck[1]),
                       deck |-> Tail(currentDeck),
                       discardPile |-> IF refill THEN <<>> ELSE c.discardPile],
            store |-> [s EXCEPT !.money = s.money - DrawCost]]

\* The for loop of initializeCards: n calls of drawCard.
RECURSIVE DrawCards(_, _, _)
DrawCards(c, s, n) ==
  IF n = 0 THEN [ok |-> TRUE, cards |-> c, store |-> s]
  ELSE LET r == DrawCard(c, s) IN DrawCards(r.cards, r.store, n - 1)

\* initializeCards
InitializeCards(s) ==
  DrawCards([hand |-> <<>>, deck |-> [i \in Cards |-> i], discardPile |-> <<>>],
            s, InitialDraws)

\* A wrong availablePositions: every position, taken or not.
AllPositions(s) == Positions

\* availablePositions of playTowerCard: the positions no tower is closer to
\* than 2.
FreePositions(s) ==
  SelectSeq(Positions,
            LAMBDA pos : ~\E i \in DOMAIN s.towers :
                            CloserThan(s.towers[i].position, pos, 2))

\* playTowerCard: [ok, store].
PlayTowerCard(s, card) ==
  LET free == FreePositions(s)
  IN  IF Len(free) = 0 THEN [ok |-> FALSE, store |-> s]
      ELSE [ok |-> TRUE, store |-> PlaceTower(s, free[1])]

\* enemies.forEach(enemy => damageEnemy(enemy.id, damage)) over the ids of
\* the enemies the spell saw.
RECURSIVE DamageAll(_, _, _)
DamageAll(s, ids, damage) ==
  IF ids = <<>> THEN s
  ELSE DamageAll(DamageEnemy(s, Head(ids), damage), Tail(ids), damage)

\* playSpellCard: [ok, store].  slow_all halves every speed (exactly, for the
\* even speeds; no card of the starting deck carries it).
PlaySpellCard(s, card) ==
  CASE card.effect = "damage_all" ->
         [ok |-> TRUE,
          store |-> DamageAll(s, [i \in DOMAIN s.enemies |-> s.enemies[i].id],
                              OrDefault(card.damage, DefaultSpellDamage))]
    [] card.effect = "slow_all" ->
         [ok |-> TRUE,
          store |-> [s EXCEPT !.enemies =
                       [i \in DOMAIN s.enemies |->
                          [s.enemies[i] EXCEPT !.speed = s.enemies[i].speed \div 2]]]]
    [] OTHER -> [ok |-> FALSE, store |-> s]

\* playUpgradeCard: [ok, store].  Upgrades towers[0].
PlayUpgradeCard(s, card) ==
  IF Len(s.towers) = 0 THEN [ok |-> FALSE, store |-> s]
  ELSE [ok |-> TRUE,
        store |-> [s EXCEPT !.towers =
          [i \in DOMAIN s.towers |->
             IF s.towers[i].id = s.towers[1].id
             THEN [s.towers[i] EXCEPT
                     !.level = s.towers[i].level + 1,
                     !.damage = s.towers[i].damage
                                  + OrDefault(card.damage, DefaultUpgradeDamage),
                     !.range = s.towers[i].range
                                  + OrDefault(card.range, DefaultUpgradeRange),
                     !.fireRate2 = s.towers[i].fireRate2
                                  + OrDefault(card.fireRate2, DefaultUpgradeFireRate2)]
             ELSE s.towers[i]]]]

\* The effect playCard dispatches to: [ok, store].
CardEffect(s, card) ==
  CASE card.type = "tower"   -> PlayTowerCard(s, card)
    [] card.type = "spell"   -> PlaySpellCard(s, card)
    [] card.type = "upgrade" -> PlayUpgradeCard(s, card)

\* addCardToDeck(card): a copy of the card, under a new id, at the bottom.
AddCardToDeck(c, cardId) == [c EXCEPT !.deck = Append(c.deck, cardId)]

\* removeCardFromHand
RemoveCardFromHand(c, cardId) ==
  [c EXCEPT !.hand = SelectSeq(c.hand, LAMBDA x : x # cardId)]

\* playCard(cardId)
PlayCard(c, s, cardId) ==
  IF cardId \notin Range(c.hand) THEN [ok |-> FALSE, cards |-> c, store |-> s]
  ELSE LET card == CardOf(cardId)
       IN  IF s.money < card.cost THEN [ok |-> FALSE, cards |-> c, store |-> s]
           ELSE LET r == CardEffect(s, card)
                IN  IF r.ok
                    THEN [ok |-> TRUE,
                          cards |-> RemoveCardFromHand(c, cardId),
                          store |-> [r.store EXCEPT
                                       !.money = r.store.money - card.cost]]
                    ELSE [ok |-> FALSE, cards |-> c, store |-> r.store]

\* discardCard(cardId)
DiscardCard(c, cardId) ==
  IF cardId \notin Range(c.hand) THEN c
  ELSE [c EXCEPT !.hand = SelectSeq(c.hand, LAMBDA x : x # cardId),
                 !.discardPile = Append(c.discardPile, cardId)]

\* ------------------------------------------------------------ the state machine
\* store    the game store (useTowerDefense)
\* cards    the card store (useCards)
\* mounted  App's mount effect has run
\* pool     a stand-alone ObjectPool (PoolSpec)
\* op       history: the last operation called, [name, arg, ok]
VARIABLES store, cards, mounted, pool, op

vars == <<store, cards, mounted, pool, op>>

Op(name, arg, ok) == [name |-> name, arg |-> arg, ok |-> ok]

Init ==
  /\ store = InitialStore
  /\ cards = EmptyCards
  /\ mounted = FALSE
  /\ pool = NewPool(0)
  /\ op = Op("new", 0, TRUE)

\* App's mount effect: initializeGame(), then initializeCards().
Mount ==
  /\ ~mounted
  /\ LET r == InitializeCards(InitializeGame(store))
     IN  store' = r.store /\ cards' = r.cards
  /\ mounted' = TRUE
  /\ op' = Op("mount", 0, TRUE)
  /\ UNCHANGED pool

Start ==
  /\ mounted
  /\ store' = StartGame(store)
  /\ op' = Op("startGame", 0, TRUE)
  /\ UNCHANGED <<cards, mounted, pool>>

Pause ==
  /\ mounted
  /\ store' = PauseGame(store)
  /\ op' = Op("pauseGame", 0, TRUE)
  /\ UNCHANGED <<cards, mounted, pool>>

Resume ==
  /\ mounted
  /\ store' = ResumeGame(store)
  /\ op' = Op("resumeGame", 0, TRUE)
  /\ UNCHANGED <<cards, mounted, pool>>

Restart ==
  /\ mounted
  /\ store' = RestartGame(store)
  /\ op' = Op("restartGame", 0, TRUE)
  /\ UNCHANGED <<cards, mounted, pool>>

SetPhase(phase) ==
  /\ mounted
  /\ store' = SetGamePhase(store, phase)
  /\ op' = Op("setGamePhase", phase, TRUE)
  /\ UNCHANGED <<cards, mounted, pool>>

AdvanceWave ==
  /\ mounted
  /\ store' = NextWave(store)
  /\ op' = Op("nextWave", 0, TRUE)
  /\ UNCHANGED <<cards, mounted, pool>>

Place(slot) ==
  /\ mounted
  /\ store' = PlaceTower(store, Positions[slot])
  /\ op' = Op("placeTower", slot, CanAfford(store.money, TowerCost))
  /\ UNCHANGED <<cards, mounted, pool>>

Spawn(type) ==
  /\ mounted
  /\ store' = SpawnEnemy(store, type)
  /\ op' = Op("spawnEnemy", type, TRUE)
  /\ UNCHANGED <<cards, mounted, pool>>

Draw ==
  /\ mounted
  /\ LET r == DrawCard(cards, store)
     IN  store' = r.store /\ cards' = r.cards /\ op' = Op("drawCard", 0, r.ok)
  /\ UNCHANGED <<mounted, pool>>

Play(cardId) ==
  /\ mounted
  /\ LET r == PlayCard(cards, store, cardId)
     IN  store' = r.store /\ cards' = r.cards
         /\ op' = Op("playCard", cardId, r.ok)
  /\ UNCHANGED <<mounted, pool>>

Discard(cardId) ==
  /\ mounted
  /\ cards' = DiscardCard(cards, cardId)
  /\ op' = Op("discardCard", cardId, cardId \in Range(cards.hand))
  /\ UNCHANGED <<store, mounted, pool>>

AddCard ==
  /\ mounted
  /\ cards' = AddCardToDeck(cards, AddedCardId)
  /\ op' = Op("addCardToDeck", AddedCardId, TRUE)
  /\ UNCHANGED <<store, mounted, pool>>

\* store.targetingSystem.findBestTarget(entity, targets), called directly.
FindTarget(entity, targets) ==
  /\ LET r == FindBestTarget(store.targetingSystem, entity, targets)
     IN  /\ store' = [store EXCEPT !.targetingSystem = r.ts]
         /\ op' = Op("findBestTarget",
                     [entity |-> entity, targets |-> targets, result |-> r.id,
                      memo |-> Memo(store.targetingSystem, entity)],
                     r.id # NoTarget)
  /\ UNCHANGED <<cards, mounted, pool>>

SetStrategy(strategy) ==
  /\ store' = [store EXCEPT !.targetingSystem =
                  SetTargetingStrategy(store.targetingSystem, strategy)]
  /\ op' = Op("setTargetingStrategy", strategy, TRUE)
  /\ UNCHANGED <<cards, mounted, pool>>

\* The wall clock passes the cache interval.
Elapse ==
  /\ store.targetingSystem.fresh
  /\ store' = [store EXCEPT !.targetingSystem =
                  IntervalElapsed(store.targetingSystem)]
  /\ op' = Op("elapse", 0, TRUE)
  /\ UNCHANGED <<cards, mounted, pool>>

\* calculateArmorReduction(damage, armor), called directly.
ReduceByArmor(damage, armor) ==
  /\ op' = Op("calculateArmorReduction",
              [damage |-> damage, armor |-> armor,
               effective |-> CalculateArmorReduction(damage, armor)],
              TRUE)
  /\ UNCHANGED <<store, cards, mounted, pool>>

\* generateWaveComposition(waveNumber), called directly.
GenerateWave(waveNumber, draws) ==
  /\ op' = Op("generateWaveComposition",
              [waveNumber |-> waveNumber,
               composition |-> GenerateWaveComposition(waveNumber, draws)],
              TRUE)
  /\ UNCHANGED <<store, cards, mounted, pool>>

\* One frame: updateGame(deltaTime).
Tick(deltaTime, spawn, expired) ==
  /\ mounted
  /\ store' = UpdateGame(store, deltaTime, spawn, expired)
  /\ op' = Op("updateGame", deltaTime, store.gamePhase = "playing")
  /\ UNCHANGED <<cards, mounted, pool>>

\* ---------------------------------------------------------------- the session
\* Frame lengths of Spec and CombatSpec (tenths of a second).
DeltaTimes == {TickLength}

\* Card ids playCard / discardCard are called with in Spec: the cards in hand
\* and one card that is not in hand, the top of the deck.
CalledCards == Range(cards.hand) \cup (IF cards.deck = <<>> THEN {} ELSE {cards.deck[1]})

\* The spell cards in hand.
SpellsInHand == {c \in Range(cards.hand) : CardOf(c).type = "spell"}

\* Spec: the card and economy session.  Every command of the player, on a
\* field of at most MaxSpawned enemies, over frames up to MaxGameTime.  A
\* frame is long enough for the targeting cache to have expired.
Next ==
  \/ Mount
  \/ Start
  \/ store.currentWave < MaxWave /\ AdvanceWave
  \/ store.towerIds < MaxTowers /\ Place(PlaceSlot)
  \/ \E type \in EnemyTypes : store.enemyIds < MaxSpawned /\ Spawn(type)
  \/ Len(cards.deck) > Len(StartingDeck) - InitialDraws - MaxDraws /\ Draw
  \/ \E cardId \in CalledCards : Play(cardId)
  \/ \E cardId \in CalledCards : Discard(cardId)
  \/ \E deltaTime \in DeltaTimes, spawn \in BOOLEAN :
       /\ store.gameTime + deltaTime <= MaxGameTime
       /\ spawn => store.enemyIds < MaxSpawned
       /\ Tick(deltaTime, spawn, TRUE)

Spec == Init /\ [][Next]_vars

\* No card command has been issued since the mount.
HandUntouched ==
  /\ Len(cards.hand) = InitialDraws
  /\ Len(cards.deck) >= Len(StartingDeck) - InitialDraws
  /\ cards.discardPile = <<>>

\* Card ids playCard is called with in CardSpec: the oldest and the newest
\* card in hand, and one card that is not in hand, the top of the deck.
CardCalls ==
  (IF cards.hand = <<>> THEN {} ELSE {cards.hand[1], cards.hand[Len(cards.hand)]})
    \cup (IF cards.deck = <<>> THEN {} ELSE {cards.deck[1]})

\* CardSpec: the hand.  The field is set up first (towers placed slot after
\* slot, up to every position taken, one enemy, and one card with an effect
\* playSpellCard does not know added to the deck), then the card commands
\* run: draws up to a full hand and an empty purse, plays, and discards of
\* the oldest card of a full hand.  The wave is advanced when the purse is
\* short.
CardNext ==
  \/ Mount
  \/ store.currentWave < CardWave /\ store.money < TowerCost /\ AdvanceWave
  \/ /\ HandUntouched
     /\ Len(store.towers) < Len(Positions)
     /\ Place(Len(store.towers) + 1)
  \/ HandUntouched /\ store.enemyIds < MaxSpawned /\ Spawn("normal")
  \/ HandUntouched /\ AddedCardId \notin Range(cards.deck) /\ AddCard
  \/ Draw
  \/ \E cardId \in CardCalls : Play(cardId)
  \/ Len(cards.hand) = MaxHandSize /\ Discard(cards.hand[1])

CardSpec == Init /\ [][CardNext]_vars

\* CombatSpec: towers, enemies and frames.  Towers are placed on the first
\* slot or on PlaceSlot, the only cards played are the spells in hand.
CombatNext ==
  \/ Mount
  \/ Start
  \/ store.currentWave < MaxWave /\ AdvanceWave
  \/ \E slot \in {1, PlaceSlot} : store.towerIds < MaxTowers /\ Place(slot)
  \/ \E type \in EnemyTypes : store.enemyIds < CombatSpawned /\ Spawn(type)
  \/ Len(cards.deck) > Len(StartingDeck) - InitialDraws - MaxDraws /\ Draw
  \/ \E cardId \in SpellsInHand : Play(cardId)
  \/ \E deltaTime \in DeltaTimes, spawn \in BOOLEAN :
       /\ store.gameTime + deltaTime <= CombatTime
       /\ spawn => store.enemyIds < CombatSpawned
       /\ Tick(deltaTime, spawn, TRUE)

CombatSpec == Init /\ [][CombatNext]_vars

\* BreachSpec: a few enemies of every type walking the whole path, past at
\* most one tower the money allows.
BreachNext ==
  \/ Mount
  \/ Start
  \/ store.towerIds < MaxTowers /\ Place(PlaceSlot)
  \/ \E type \in EnemyTypes : store.enemyIds < BreachSpawned /\ Spawn(type)
  \/ \E spawn \in BOOLEAN :
       /\ store.gameTime + BreachTick <= BreachTime
       /\ spawn => store.enemyIds < BreachSpawned
       /\ Tick(BreachTick, spawn, TRUE)

BreachSpec == Init /\ [][BreachNext]_vars

\* LossSpec: enough normal enemies to take every life, over long frames.
LossNext ==
  \/ Mount
  \/ Start
  \/ store.enemyIds < LossSpawned /\ Spawn("normal")
  \/ \E deltaTime \in {LossTick, 2 * LossTick} :
       store.gameTime + deltaTime <= LossTime /\ Tick(deltaTime, FALSE, TRUE)

LossSpec == Init /\ [][LossNext]_vars

\* PhaseSpec: the phase commands of the interface around frames and spawns.
GamePhases == {"menu", "playing", "paused", "ended"}

PhaseNext ==
  \/ Mount
  \/ Start
  \/ Pause
  \/ Resume
  \/ Restart
  \/ \E phase \in GamePhases : SetPhase(phase)
  \/ \E type \in EnemyTypes : store.enemyIds < MaxSpawned /\ Spawn(type)
  \/ \E deltaTime \in DeltaTimes, spawn \in BOOLEAN :
       /\ store.gameTime + deltaTime <= CombatTime
       /\ spawn => store.enemyIds < MaxSpawned
       /\ Tick(deltaTime, spawn, TRUE)

PhaseSpec == Init /\ [][PhaseNext]_vars

\* ------------------------------------------------------------------- PoolSpec
\* A stand-alone ObjectPool under any sequence of acquire, release (of any
\* object the factory has built, leased or not) and releaseAll.
PoolCaps == (0..MaxPoolCap) \cup {WarmSize + 1}

PoolInit ==
  /\ store = InitialStore
  /\ cards = EmptyCards
  /\ mounted = FALSE
  /\ pool \in {NewPool(maxSize) : maxSize \in PoolCaps}
  /\ op = Op("new", 0, TRUE)

PoolAcquire ==
  /\ pool' = Acquire(pool)
  /\ op' = Op("acquire", AcquiredObject(pool), TRUE)
  /\ UNCHANGED <<store, cards, mounted>>

PoolRelease(obj) ==
  /\ pool' = Release(pool, obj)
  /\ op' = Op("release", obj, obj \in Range(pool.inUse))
  /\ UNCHANGED <<store, cards, mounted>>

PoolReleaseAll ==
  /\ pool' = ReleaseAll(pool)
  /\ op' = Op("releaseAll", 0, TRUE)
  /\ UNCHANGED <<store, cards, mounted>>

PoolNext ==
  \/ /\ Len(pool.inUse) < MaxLeased
     /\ Len(pool.available) = 0 => pool.made < Min(WarmSize, pool.maxSize) + MaxBuilt
     /\ PoolAcquire
  \/ \E obj \in 1..pool.made : PoolRelease(obj)
  \/ PoolReleaseAll

PoolSpec == PoolInit /\ [][PoolNext]_vars

\* VictorySpec: a session taken to its last wave and run for two wave
\* budgets, in frames of VictoryTick, with at most MaxSpawned enemies.
VictoryNext ==
  \/ Mount
  \/ Start
  \/ store.currentWave < TotalWaves /\ AdvanceWave
  \/ \E type \in EnemyTypes : store.enemyIds < MaxSpawned /\ Spawn(type)
  \/ \E spawn \in BOOLEAN :
       /\ store.gameTime + VictoryTick <= VictoryTime
       /\ spawn => store.enemyIds < MaxSpawned
       /\ Tick(VictoryTick, spawn, TRUE)

VictorySpec == Init /\ [][VictoryNext]_vars

\* ArmorSpec: calculateArmorReduction on its own, for raw damages of 1/2 to
\* MaxHalfDamage/2 and every whole armor up to MaxArmor.
RawDamages == {Frac(k, 2) : k \in 1..MaxHalfDamage}

ArmorNext ==
  \E damage \in RawDamages, armor \in 0..MaxArmor : ReduceByArmor(damage, armor)

ArmorSpec == Init /\ [][ArmorNext]_vars

\* WaveSpec: generateWaveComposition on its own, for the waves up to
\* MaxWaveNumber, each entry drawing a low or a high factor and interval.
WaveDraws == {[factor |-> 8, interval |-> 10], [factor |-> 11, interval |-> 29]}

WaveNext ==
  \E waveNumber \in 1..MaxWaveNumber :
    \E draws \in [DOMAIN WaveEnemyTypes(WaveTemplateOf(waveNumber)) -> WaveDraws] :
      GenerateWave(waveNumber, draws)

WaveSpec == Init /\ [][WaveNext]_vars

\* CrossfireSpec: two towers whose ranges overlap on the path (the first
\* position and PlaceSlot), fast enemies, the damage spells, and frames
\* without spawn trials.
CrossfireNext ==
  \/ Mount
  \/ Start
  \/ store.currentWave < CrossfireWave /\ AdvanceWave
  \/ \E slot \in {1, PlaceSlot} :
       /\ store.towerIds < MaxTowers
       /\ \A i \in DOMAIN store.towers : store.towers[i].position # Positions[slot]
       /\ Place(slot)
  \/ store.enemyIds < MaxSpawned /\ Spawn("fast")
  \/ Len(cards.deck) > Len(StartingDeck) - InitialDraws - MaxDraws /\ Draw
  \/ \E cardId \in SpellsInHand : Play(cardId)
  \/ /\ store.gameTime + TickLength <= CombatTime
     /\ Tick(TickLength, FALSE, TRUE)

CrossfireSpec == Init /\ [][CrossfireNext]_vars

\* The upgrade cards in hand.
UpgradesInHand == {c \in Range(cards.hand) : CardOf(c).type = "upgrade"}

\* CooldownSpec: one tower on PlaceSlot and a fast enemy, frames of
\* CooldownTick, shorter than the tower's cooldown, after long frames that
\* bring the enemy into range, and the upgrade cards, which raise the fire
\* rate.
CooldownNext ==
  \/ Mount
  \/ Start
  \/ store.currentWave < MaxWave /\ AdvanceWave
  \/ store.towerIds < 1 /\ Place(PlaceSlot)
  \/ store.enemyIds < MaxSpawned /\ store.gameTime = 0 /\ Spawn("fast")
  \/ UpgradesInHand = {} /\ Draw
  \/ \E cardId \in UpgradesInHand : Play(cardId)
  \/ \E deltaTime \in {CooldownTick, TickLength} :
       /\ store.gameTime + deltaTime <= CooldownTime
       /\ Tick(deltaTime, FALSE, TRUE)

CooldownSpec == Init /\ [][CooldownNext]_vars

\* TargetSpec: the store's targeting system called on its own, with a tower
\* as placeTower makes it on the first position and every list of up to
\* MaxTargets enemies: each on one of four places of the path (out of range,
\* in range, nearest, and as far as the second on the other side) and of the
\* health of a fast or a normal enemy.
TargetEntity == [id |-> 1, position |-> Positions[1], range |-> TowerRange]

TargetPlaces == {600, 900, 1000, 1100}

Targets ==
  [id : 1..MaxTargets, pathProgress : TargetPlaces,
   health : {EnemyConfig("fast").health, EnemyConfig("normal").health}]

TargetLists ==
  {l \in UNION {[1..n -> Targets] : n \in 0..MaxTargets} :
     \A i, j \in DOMAIN l : i # j => l[i].id # l[j].id}

TargetNext ==
  \/ \E targets \in TargetLists : FindTarget(TargetEntity, targets)
  \/ \E strategy \in Strategies : SetStrategy(strategy)
  \/ Elapse

TargetSpec == Init /\ [][TargetNext]_vars

\* ----------------------------------------------------------------- the claims

\* C1: a successful playCard(cardId) decreases the currency by exactly the
\* cost of the card, once, whatever the card's category: money after the call
\* is money before it minus card.cost, the dispatched effect deducting nothing
\* more.
C1_PlayCardDeductsCostOnce ==
  [][(op'.name = "playCard" /\ op'.ok)
       => store'.money = store.money - CardOf(op'.arg).cost]_vars

\* C2: the currency is never negative, after any sequence of frames and
\* player commands from the initial session state.
C2_CurrencyNeverNegative == store.money >= 0

\* C3 as stated: for a pool constructed with capacity N, the number of
\* available objects plus the number of leased objects never exceeds N.
C3_AvailablePlusLeasedWithinCapacity ==
  Len(pool.available) + Len(pool.inUse) <= pool.maxSize

\* C3, amended: the number of available objects never exceeds the capacity N
\* (acquire builds a new object whenever none is available, so the number of
\* leased objects is not bounded by N; release keeps an object only while
\* fewer than N are available).
C3_AvailableWithinCapacity == Len(pool.available) <= pool.maxSize

\* C3 witness: a release found the pool full and discarded the object (more
\* objects were built than are available or leased), N > 0.
C3_ReleaseDiscarded ==
  /\ op.name = "release" /\ op.ok
  /\ pool.maxSize > 0
  /\ Len(pool.available) = pool.maxSize
  /\ pool.made > Len(pool.available) + Len(pool.inUse)

\* The enemies of the active collection that carry the id.
EnemiesWithId(id) == {i \in DOMAIN store.enemies : store.enemies[i].id = id}

\* C4: damage dealt by a tower's shot during a frame persists after the frame:
\* between operations the health of every active enemy is its initial health
\* minus all the damage dealt to it so far, floored at 0 (after the k-th shot
\* of damage d on health h: max(0, h - k*d)).
C4_DamagePersists ==
  \A i \in DOMAIN store.enemies :
    store.enemies[i].health
      = Max(0, store.enemies[i].maxHealth - store.dealt[store.enemies[i].id])

\* C5: kill accounting: an enemy whose health damage has brought to 0 is
\* absent from the active collection once the frame or command has finished
\* and never reappears, and its reward and kill are credited exactly once
\* over the session.
C5_KilledOnceAndGone ==
  \A id \in DOMAIN store.credited :
    store.credited[id] >= 1
      => store.credited[id] = 1 /\ EnemiesWithId(id) = {}

\* C6 (loss is detected on the frame of the breach): when a breach during a
\* frame leaves lives <= 0, the phase is "ended" when that updateGame returns.
C6_LossDetectedOnBreachFrame ==
  [][(op'.name = "updateGame" /\ op'.ok
        /\ store'.lives < store.lives /\ store'.lives <= 0)
       => store'.gamePhase = "ended"]_vars

\* C7: lives are never negative, after any sequence of frames and commands.
C7_LivesNeverNegative == store.lives >= 0

\* The enemies whose progress plus speed * deltaTime reaches the end of the path.
Breaching(deltaTime) ==
  {i \in DOMAIN store.enemies :
     store.enemies[i].pathProgress + store.enemies[i].speed * deltaTime
       >= ProgressFull}

\* C8 (breach): in a frame, every enemy whose path progress plus
\* speed * deltaTime reaches >= 1 is absent from the active collection
\* afterwards, and lives change by exactly minus the number of such enemies.
C8_BreachCostsOneLifeEach ==
  [][(op'.name = "updateGame" /\ op'.ok) =>
       /\ store'.lives = store.lives - Cardinality(Breaching(op'.arg))
       /\ \A i \in Breaching(op'.arg) :
            \A j \in DOMAIN store'.enemies :
              store'.enemies[j].id # store.enemies[i].id]_vars

\* C8 witness: two enemies breached in one frame, the first frame in which
\* an enemy can reach the end (a fast enemy spawned at time 0 arrives exactly
\* at progress 1): two lives are gone and the field is empty.
C8_TwoBreachedInOneFrame ==
  /\ op.name = "updateGame" /\ op.ok
  /\ store.gameTime * EnemyConfig("fast").speed = ProgressFull
  /\ store.lives = InitialLives - 2
  /\ store.enemies = <<>>

\* How often a pooled object occurs in an active-effects collection.
Occurrences(effects, obj) ==
  Cardinality({i \in DOMAIN effects : effects[i].obj = obj})

\* C9: effect ownership: between operations every effect record leased from
\* the laser or particle pool is an element of exactly one active-effects
\* collection (once), and no record a pool holds as available is in any.
C9_EffectOwnership ==
  /\ \A obj \in Range(store.laserPool.inUse) :
        Occurrences(store.laserBeams, obj) = 1
  /\ \A obj \in Range(store.particlePool.inUse) :
        Occurrences(store.particleEffects, obj) = 1
  /\ \A obj \in Range(store.laserPool.available) :
        Occurrences(store.laserBeams, obj) = 0
  /\ \A obj \in Range(store.particlePool.available) :
        Occurrences(store.particleEffects, obj) = 0

\* C10: in the frame where the remaining lifetime of an active effect reaches
\* <= 0 the effect leaves its collection and is released to its pool: it is
\* no longer in the pool's leased set.
C10_ExpiredEffectReleased ==
  [][(op'.name = "updateGame" /\ op'.ok) =>
       /\ \A i \in DOMAIN store.laserBeams :
            store.laserBeams[i].lifetime - op'.arg <= 0
              => /\ Occurrences(store'.laserBeams, store.laserBeams[i].obj) = 0
                 /\ store.laserBeams[i].obj \notin Range(store'.laserPool.inUse)
       /\ \A i \in DOMAIN store.particleEffects :
            store.particleEffects[i].lifetime - op'.arg <= 0
              => /\ Occurrences(store'.particleEffects,
                                store.particleEffects[i].obj) = 0
                 /\ store.particleEffects[i].obj
                      \notin Range(store'.particlePool.inUse)]_vars

\* C11: the phase changes only along the edges menu -> playing (startGame),
\* playing -> paused (pauseGame), paused -> playing (resumeGame),
\* playing -> ended (inside a frame), and by restartGame; startGame,
\* pauseGame and resumeGame called in any other phase leave the phase alone.
C11_PhaseEdges ==
  [][store'.gamePhase # store.gamePhase =>
       \/ op'.name = "restartGame"
       \/ /\ op'.name = "startGame"
          /\ store.gamePhase = "menu" /\ store'.gamePhase = "playing"
       \/ /\ op'.name = "pauseGame"
          /\ store.gamePhase = "playing" /\ store'.gamePhase = "paused"
       \/ /\ op'.name = "resumeGame"
          /\ store.gamePhase = "paused" /\ store'.gamePhase = "playing"
       \/ /\ op'.name = "updateGame"
          /\ store.gamePhase = "playing" /\ store'.gamePhase = "ended"]_vars

\* C12: updateGame called while the phase is menu, paused or ended leaves
\* the whole session state unchanged: time, wave progress, towers, enemies,
\* effects, lives, money, score, counters and phase.
C12_InertFrame ==
  [][(op'.name = "updateGame" /\ store.gamePhase # "playing")
       => store' = store]_vars

\* C12 witness: a frame was called on a paused session under way (time has
\* passed, an enemy is on the field).
C12_FrameWhilePaused ==
  /\ op.name = "updateGame" /\ ~op.ok
  /\ store.gamePhase = "paused"
  /\ store.gameTime > 0
  /\ Len(store.enemies) > 0

\* How often a card id occurs in a pile.
CardCount(pile, cardId) == Cardinality({i \in DOMAIN pile : pile[i] = cardId})

\* C13 (card partition): after initialization and any sequence of drawCard,
\* playCard and discardCard every card of the session is in exactly one of
\* hand, deck and discard pile (so a played card is in the discard pile).
C13_CardPartition ==
  mounted =>
    \A cardId \in Cards :
      CardCount(cards.hand, cardId) + CardCount(cards.deck, cardId)
        + CardCount(cards.discardPile, cardId) = 1

\* Every placement position of playTowerCard has a tower on it.
EveryPositionTaken ==
  \A p \in DOMAIN Positions :
    \E i \in DOMAIN store.towers : store.towers[i].position = Positions[p]

\* The cases in which playCard(cardId) has to be rejected: the card is not in
\* hand, it costs more than the money at hand, or its effect cannot complete.
MustReject(cardId) ==
  \/ cardId \notin Range(cards.hand)
  \/ store.money < CardOf(cardId).cost
  \/ CardOf(cardId).type = "tower" /\ EveryPositionTaken
  \/ CardOf(cardId).type = "upgrade" /\ store.towers = <<>>
  \/ /\ CardOf(cardId).type = "spell"
     /\ CardOf(cardId).effect \notin {"damage_all", "slow_all"}

\* C14 (rejected play): playCard returns false when the card is not in hand,
\* money < cost, or the effect cannot complete (tower card and no free
\* position, upgrade card and no tower, spell of an unknown effect), and a
\* playCard that returns false leaves hand, deck, discard pile, money, towers
\* and enemies (the whole of both stores) unchanged.
C14_RejectedPlayChangesNothing ==
  [][op'.name = "playCard" =>
       /\ MustReject(op'.arg) => ~op'.ok
       /\ ~op'.ok => cards' = cards /\ store' = store]_vars

\* C14 witness: a tower card in hand, affordable, was played with a tower on
\* each of the six positions and an enemy on the field, and was rejected.
C14_TowerCardWithoutPosition ==
  /\ op.name = "playCard" /\ ~op.ok
  /\ op.arg \in Range(cards.hand)
  /\ CardOf(op.arg).type = "tower"
  /\ store.money >= CardOf(op.arg).cost
  /\ EveryPositionTaken
  /\ store.enemies # <<>>

\* C14, further cases reached: an affordable upgrade card rejected for want
\* of a tower, and an affordable spell of an unknown effect rejected.
C14_UpgradeWithoutTower ==
  /\ op.name = "playCard" /\ ~op.ok
  /\ op.arg \in Range(cards.hand)
  /\ CardOf(op.arg).type = "upgrade"
  /\ store.money >= CardOf(op.arg).cost
  /\ store.towers = <<>>

C14_UnknownSpell ==
  /\ op.name = "playCard" /\ ~op.ok
  /\ op.arg \in Range(cards.hand)
  /\ CardOf(op.arg).effect = "heal_towers"
  /\ store.money >= CardOf(op.arg).cost

\* C15 (rejected draw): drawCard returns false whenever the hand holds 7
\* cards or money < 10, and a drawCard that returns false leaves hand, deck,
\* discard pile and money (the whole of both stores) unchanged.
C15_RejectedDrawChangesNothing ==
  [][op'.name = "drawCard" =>
       /\ (Len(cards.hand) >= MaxHandSize \/ store.money < DrawCost) => ~op'.ok
       /\ ~op'.ok => cards' = cards /\ store' = store]_vars

\* C15 witness: a draw was rejected on a full hand, with the draw cost at
\* hand and a card on the deck.
C15_DrawOnFullHand ==
  /\ op.name = "drawCard" /\ ~op.ok
  /\ Len(cards.hand) = MaxHandSize
  /\ store.money >= DrawCost
  /\ cards.deck # <<>>

\* C15, the other case reached: a draw rejected for want of money, with room
\* in hand and cards on the deck and on the discard pile.
C15_DrawWithoutMoney ==
  /\ op.name = "drawCard" /\ ~op.ok
  /\ Len(cards.hand) < MaxHandSize
  /\ store.money < DrawCost
  /\ cards.deck # <<>>
  /\ cards.discardPile # <<>>

\* C16 (health invariant): after every frame and every command each enemy of
\* the active collection has 0 <= health <= maxHealth.
C16_HealthWithinBounds ==
  \A i \in DOMAIN store.enemies :
    /\ 0 <= store.enemies[i].health
    /\ store.enemies[i].health <= store.enemies[i].maxHealth

\* C16 witness: a frame has run on a field with a wounded enemy and an
\* unharmed one.
C16_WoundedAfterFrame ==
  /\ op.name = "updateGame" /\ op.ok
  /\ \E i \in DOMAIN store.enemies :
       /\ 0 < store.enemies[i].health
       /\ store.enemies[i].health < store.enemies[i].maxHealth
  /\ \E i \in DOMAIN store.enemies :
       store.enemies[i].health = store.enemies[i].maxHealth

\* C17 (ready flag): in every reachable state every tower whose canFire flag
\* is true has gameTime - lastFired >= 1 / fireRate.
C17_ReadyFlagMeansCooledDown ==
  \A i \in DOMAIN store.towers :
    store.towers[i].canFire =>
      (store.gameTime - store.towers[i].lastFired) * store.towers[i].fireRate2
        >= 2 * TimeScale

\* The places in a list of the targets within the entity's range.
PlacesInRange(entity, targets) ==
  {i \in DOMAIN targets :
     DistSq(entity.position, EnemyPosition(targets[i].pathProgress))
       <= (entity.range * CoordScale) * (entity.range * CoordScale)}

\* The id of the nearest target in range, the first in the list among equally
\* distant ones; NoTarget when none is in range.
NearestInRange(entity, targets) ==
  LET in == PlacesInRange(entity, targets)
      d(i) == DistSq(entity.position, EnemyPosition(targets[i].pathProgress))
  IN  IF in = {} THEN NoTarget
      ELSE targets[CHOOSE i \in in :
                     \A j \in in : d(i) < d(j) \/ (d(i) = d(j) /\ i <= j)].id

\* C18 (targeting determinism): under the closest strategy findBestTarget
\* gives, for a given entity and list of targets, the same id whatever calls
\* went before and whenever it is called: the nearest target in range, the
\* first in the list among equally distant ones.
C18_ClosestWhateverTheMemo ==
  (op.name = "findBestTarget" /\ store.targetingSystem.strategy = "closest")
    => op.arg.result = NearestInRange(op.arg.entity, op.arg.targets)

\* C19 (eligibility): for every strategy and every state of the cache,
\* findBestTarget returns null exactly when no target of the list is within
\* the entity's range, and otherwise the id of a target of the list that is
\* within range; a memoized id is not returned when its target is missing
\* from the list or out of range.
C19_ResultInRangeOrNull ==
  op.name = "findBestTarget" =>
    LET in == PlacesInRange(op.arg.entity, op.arg.targets)
    IN  /\ op.arg.result = NoTarget <=> in = {}
        /\ op.arg.result # NoTarget =>
              \E i \in in : op.arg.targets[i].id = op.arg.result

\* C19 witness: a call within the cache interval whose memoized target was
\* not among the targets in range, while another target was; that one was
\* returned.
C19_StaleMemoPassedOver ==
  /\ op.name = "findBestTarget"
  /\ op.arg.memo # NoTarget
  /\ \A i \in PlacesInRange(op.arg.entity, op.arg.targets) :
       op.arg.targets[i].id # op.arg.memo
  /\ op.arg.result # NoTarget
  /\ store.targetingSystem.strategy = "weakest"

\* C20 (victory): a playing session on its last wave with lives left ends
\* (phase ended) on the frame in which the wave's time budget runs out with
\* no enemy remaining, so that under continued frames it does not stay in
\* playing for ever.
C20_VictoryWhenBudgetRunsOut ==
  [][(/\ op'.name = "updateGame"
      /\ store.gamePhase = "playing"
      /\ store.currentWave >= store.totalWaves
      /\ store'.lives > 0
      /\ store'.enemies = <<>>
      /\ store'.gameTime \div WaveTimeLimit > store.gameTime \div WaveTimeLimit)
       => store'.gamePhase = "ended"]_vars

\* C21 (occupied position): placeTower on a position a tower already stands
\* on is rejected, so no two towers ever share a position.
C21_NoSharedPosition ==
  \A i, j \in DOMAIN store.towers :
    i # j => store.towers[i].position # store.towers[j].position

\* Two calls of calculateArmorReduction in a row with the same raw damage,
\* the second with at least the armor of the first, give no more damage the
\* second time.
ArmorMonotone ==
  (/\ op.name = "calculateArmorReduction"
   /\ op'.name = "calculateArmorReduction"
   /\ op'.arg.damage = op.arg.damage
   /\ op'.arg.armor >= op.arg.armor)
    => FracLeq(op'.arg.effective, op.arg.effective)

\* C22 as stated (armor reduction): for every raw damage > 0 the effective
\* damage is non-increasing as armor increases, equals raw at armor 0 and
\* raw/2 at armor 100.
C22_ArmorHalvesAtHundred ==
  [][/\ ArmorMonotone
     /\ op'.name = "calculateArmorReduction" =>
          /\ op'.arg.armor = 0 => FracEq(op'.arg.effective, op'.arg.damage)
          /\ op'.arg.armor = 100 =>
                FracEq(op'.arg.effective,
                       Frac(op'.arg.damage[1], 2 * op'.arg.damage[2]))]_vars

\* C22 amended: the effective damage is non-increasing as armor increases,
\* is never below 1, equals raw at armor 0 when raw >= 1 and raw/2 at armor
\* 100 when raw >= 2; below those it is 1.
C22_ArmorHalvesDownToOne ==
  [][/\ ArmorMonotone
     /\ op'.name = "calculateArmorReduction" =>
          LET raw == op'.arg.damage
              effective == op'.arg.effective
          IN  /\ FracLeq(Frac(1, 1), effective)
              /\ op'.arg.armor = 0 =>
                    IF FracLeq(Frac(1, 1), raw)
                    THEN FracEq(effective, raw) ELSE FracEq(effective, Frac(1, 1))
              /\ op'.arg.armor = 100 =>
                    IF FracLeq(Frac(2, 1), raw)
                    THEN FracEq(effective, Frac(raw[1], 2 * raw[2]))
                    ELSE FracEq(effective, Frac(1, 1))]_vars

\* C22 witness: a raw damage of 1 against armor 100 came out as 1, not 1/2.
C22_FlooredAtOne ==
  /\ op.name = "calculateArmorReduction"
  /\ op.arg.armor = 100
  /\ FracEq(op.arg.damage, Frac(1, 1))
  /\ FracEq(op.arg.effective, Frac(1, 1))

\* C23 (boss waves): generateWaveComposition chooses the boss template for
\* every wave number that is a positive multiple of 5, and the template is a
\* function of the wave number alone.
C23_BossOnMultiplesOfFive ==
  [][op'.name = "generateWaveComposition" =>
       /\ (op'.arg.waveNumber > 0 /\ op'.arg.waveNumber % 5 = 0)
             => op'.arg.composition.template = "boss"
       /\ (op.name = "generateWaveComposition"
              /\ op.arg.waveNumber = op'.arg.waveNumber)
             => op'.arg.composition.template = op.arg.composition.template]_vars

\* C24 (spawning frame): an enemy spawned by the spawn step of a frame is in
\* the active collection when the frame returns, with full health and path
\* progress in [0, 1), and the spawn step only fires under the cap of 10
\* enemies.
C24_SpawnedEnemyIsActive ==
  [][(op'.name = "updateGame" /\ op'.ok /\ store'.enemyIds > store.enemyIds) =>
       /\ Len(store.enemies) < SpawnCap
       /\ \E i \in DOMAIN store'.enemies :
            /\ store'.enemies[i].id = store'.enemyIds
            /\ store'.enemies[i].health = store'.enemies[i].maxHealth
            /\ store'.enemies[i].pathProgress >= 0
            /\ store'.enemies[i].pathProgress < ProgressFull]_vars

\* The towers whose lastFired a frame has reset to the frame's time.
CooledTowers ==
  {i \in DOMAIN store.towers :
     /\ store'.towers[i].lastFired = store'.gameTime
     /\ store.towers[i].lastFired # store'.gameTime}

\* C25 (cooldown consumed by a real shot): in every frame the towers whose
\* lastFired is reset to the current time are the towers a shot was fired
\* for: each reset goes with one laser leased and one increment of
\* totalShots; a fire whose target no longer resolves leaves lastFired alone.
C25_CooldownOnlyForRealShot ==
  [][(op'.name = "updateGame" /\ op'.ok) =>
       /\ Cardinality(CooledTowers) = store'.totalShots - store.totalShots
       /\ Cardinality(CooledTowers)
            = Len(store'.laserPool.inUse) - Len(store.laserPool.inUse)]_vars

\* The call recorded in op returned the memoized id.
MemoReused ==
  /\ op.arg.memo # NoTarget
  /\ \E i \in PlacesInRange(op.arg.entity, op.arg.targets) :
       op.arg.targets[i].id = op.arg.memo

\* The id of the first target in range that no target in range beats, where
\* Beats(a, b) says target a is strictly better than target b.
FirstUnbeaten(entity, targets, Beats(_, _)) ==
  LET in == PlacesInRange(entity, targets)
  IN  targets[CHOOSE i \in in :
                /\ \A j \in in : ~Beats(targets[j], targets[i])
                /\ \A j \in in :
                     j < i => Beats(targets[i], targets[j])].id

\* What each strategy has to select among the targets in range.
StrategyChoice(strategy, entity, targets) ==
  LET in == PlacesInRange(entity, targets)
      d(t) == DistSq(entity.position, EnemyPosition(t.pathProgress))
  IN  CASE strategy = "closest" ->
             FirstUnbeaten(entity, targets, LAMBDA a, b : d(a) < d(b))
        [] strategy = "weakest" ->
             FirstUnbeaten(entity, targets, LAMBDA a, b : a.health < b.health)
        [] strategy = "strongest" ->
             FirstUnbeaten(entity, targets, LAMBDA a, b : a.health > b.health)
        [] strategy = "first" ->
             targets[CHOOSE i \in in : \A j \in in : i <= j].id
        [] strategy = "last" ->
             targets[CHOOSE i \in in : \A j \in in : i >= j].id

\* C26 (strategies): when no memo entry is reused and some target is within
\* range, findBestTarget returns, among the targets within range, under
\* closest the one at minimum distance, under weakest the one of minimum
\* health, under strongest the one of maximum health, each time the earliest
\* in the list among equals, under first the first and under last the last.
C26_StrategySelects ==
  (/\ op.name = "findBestTarget"
   /\ ~MemoReused
   /\ PlacesInRange(op.arg.entity, op.arg.targets) # {})
    => op.arg.result
         = StrategyChoice(store.targetingSystem.strategy,
                          op.arg.entity, op.arg.targets)

\* C26 witness: under closest, with no memo reused, two targets in range and
\* equally distant, on either side of the tower: the first of them was
\* returned.
C26_TieGoesToFirst ==
  /\ op.name = "findBestTarget"
  /\ store.targetingSystem.strategy = "closest"
  /\ ~MemoReused
  /\ Len(op.arg.targets) = 2
  /\ op.arg.targets[1].pathProgress # op.arg.targets[2].pathProgress
  /\ PlacesInRange(op.arg.entity, op.arg.targets) = {1, 2}
  /\ DistSq(op.arg.entity.position,
            EnemyPosition(op.arg.targets[1].pathProgress))
       = DistSq(op.arg.entity.position,
                EnemyPosition(op.arg.targets[2].pathProgress))
  /\ op.arg.result = op.arg.targets[1].id

\* The towers for which, at the time the frame reaches, 1 / fireRate has gone
\* by since lastFired.
ReadyTowers ==
  {i \in DOMAIN store.towers :
     (store'.gameTime - store.towers[i].lastFired) * store.towers[i].fireRate2
       >= 2 * TimeScale}

\* C27 (cooldown gating): in a frame every shot goes with a tower of its own
\* whose lastFired is reset (a tower fires at most once per frame), a tower's
\* lastFired is reset only when at least 1 / fireRate has gone by since the
\* last reset, and a tower whose cooldown has not elapsed keeps its
\* lastFired and fires no shot, whatever is in range.
C27_FireGatedByCooldown ==
  [][(op'.name = "updateGame" /\ op'.ok) =>
       /\ store'.totalShots - store.totalShots <= Cardinality(CooledTowers)
       /\ CooledTowers \subseteq ReadyTowers
       /\ \A i \in DOMAIN store.towers :
            i \notin ReadyTowers =>
              store'.towers[i].lastFired = store.towers[i].lastFired
       /\ ReadyTowers = {} => store'.totalShots = store.totalShots]_vars

\* C27 witness: a frame has left alone a tower that shot before, is not yet
\* ready again and has the enemy within its range.
C27_HeldFire ==
  /\ op.name = "updateGame" /\ op.ok
  /\ store.totalShots > 0
  /\ \E i \in DOMAIN store.towers :
       /\ store.towers[i].lastFired > 0
       /\ store.towers[i].lastFired < store.gameTime
       /\ ~store.towers[i].canFire
       /\ PlacesInRange(store.towers[i], store.enemies) # {}

\* C28 (accuracy): after every frame run in playing, accuracy is
\* hitShots / totalShots of the counters as they stand when the frame
\* returns, shots of that frame included, and 0 when totalShots is 0.
C28_AccuracyOfCurrentCounters ==
  [][(op'.name = "updateGame" /\ op'.ok) =>
       IF store'.totalShots = 0 THEN store'.accuracy[1] = 0
       ELSE store'.accuracy[1] * store'.totalShots
              = store'.hitShots * store'.accuracy[2]]_vars

\* C29 (hits within shots): after any sequence of frames and commands,
\* spell cards included, hitShots <= totalShots, so accuracy is within [0, 1].
C29_HitsWithinShots ==
  /\ store.hitShots <= store.totalShots
  /\ 0 <= store.accuracy[1]
  /\ store.accuracy[1] <= store.accuracy[2]

\* No object of the pool is available and leased at once, and none is in
\* the available list twice.
LeaseExclusive(p) ==
  /\ Range(p.available) \cap Range(p.inUse) = {}
  /\ \A i, j \in DOMAIN p.available : i # j => p.available[i] # p.available[j]

\* C30 (lease exclusivity): after any sequence of acquire, release and
\* releaseAll, releases of objects that are not leased included, no object
\* is both available and leased, none is twice in the available list, and
\* acquire never returns an object that is leased at the time.
C30_LeaseExclusivity ==
  [][/\ LeaseExclusive(pool) /\ LeaseExclusive(pool')
     /\ op'.name = "acquire" => op'.arg \notin Range(pool.inUse)
     /\ (op'.name = "release" /\ ~op'.ok) => pool' = pool]_vars

\* C30 witness: an object that is available, not leased, was released while
\* other objects were leased; nothing changed.
C30_ReleaseOfAvailable ==
  /\ op.name = "release" /\ ~op.ok
  /\ op.arg \in Range(pool.available)
  /\ Len(pool.inUse) > 0

=============================================================================
